---- MODULE Spec2Model ----
(***************************************************************************)
(* hibou: the SQLite persistence layer for GTFS feed data                  *)
(* (src/external/gtfsdb.rs and the entity modules under src/external/gtfs) *)
(* together with the import command (src/cmd/make_db.rs).                  *)
(*                                                                         *)
(* The store is one SQLite file: a map from table name to a table          *)
(* (present or absent, its declared columns, its committed rows).  The     *)
(* program holds one connection.  `insert` is modelled step by step        *)
(* (BEGIN, one INSERT per record, COMMIT or the rollback done when the     *)
(* Transaction value is dropped), so that a reader on a second connection  *)
(* can be interleaved with it.                                             *)
(***************************************************************************)
EXTENDS Integers, Sequences, FiniteSets, TLC

\* ------------------------------------------------------------------ bounds

\* Longest batch handed to insert.
MaxBatch == 2

\* Number of consecutive import runs followed by the import specification.
MaxRuns == 2

\* Number of lifecycle calls remembered by the lifecycle specification.
MaxTrail == 4

\* ------------------------------------------------------------ SQL values

SqlNull == [k |-> "null", i |-> 0, s |-> ""]
SqlText(s) == [k |-> "text", i |-> 0, s |-> s]
SqlInt(n) == [k |-> "int", i |-> n, s |-> ""]

\* Decimal text of the small integers the model stores, and back.
IntTexts == <<"0", "1", "2", "3">>

IsIntText(s) == \E n \in 1..Len(IntTexts) : IntTexts[n] = s

IntOfText(s) == (CHOOSE n \in 1..Len(IntTexts) : IntTexts[n] = s) - 1

TextOfInt(n) == IF n + 1 \in 1..Len(IntTexts) THEN IntTexts[n + 1] ELSE "big"

\* SQLite's column affinity, applied to a value when it is stored.
ApplyAffinity(decl, v) ==
    CASE decl = "text" /\ v.k = "int" -> SqlText(TextOfInt(v.i))
      [] decl = "int" /\ v.k = "text" /\ IsIntText(v.s) -> SqlInt(IntOfText(v.s))
      [] OTHER -> v

\* A column of a CREATE TABLE statement.
Col(name, type, notnull, pk) == [name |-> name, type |-> type, notnull |-> notnull, pk |-> pk]

\* The elements of a sequence.
Range(f) == {f[x] : x \in DOMAIN f}

\* ------------------------------------------------------------ entity types

Entities == {"Agency", "Stop", "Route", "Trip", "StopTime"}

\* -- Agency (src/external/gtfs/agency.rs)

Agency_table_name == "agency"

Agency_column_names ==
    <<"agency_id", "agency_name", "agency_url", "agency_timezone", "agency_lang",
      "agency_phone", "agency_fare_url", "agency_email">>

\* A CREATE TABLE statement that leaves agency_email out.
Agency_create_columns_NoEmail ==
    << Col("agency_id", "text", FALSE, TRUE),
       Col("agency_name", "text", TRUE, FALSE),
       Col("agency_url", "text", TRUE, FALSE),
       Col("agency_timezone", "text", TRUE, FALSE),
       Col("agency_lang", "text", TRUE, FALSE),
       Col("agency_phone", "text", FALSE, FALSE),
       Col("agency_fare_url", "text", FALSE, FALSE) >>

\* The column list of agency::create's CREATE TABLE statement.
Agency_create_columns ==
    << Col("agency_id", "text", FALSE, TRUE),
       Col("agency_name", "text", TRUE, FALSE),
       Col("agency_url", "text", TRUE, FALSE),
       Col("agency_timezone", "text", TRUE, FALSE),
       Col("agency_lang", "text", TRUE, FALSE),
       Col("agency_phone", "text", FALSE, FALSE),
       Col("agency_fare_url", "text", FALSE, FALSE),
       Col("agency_email", "text", FALSE, FALSE) >>

\* -- Trip (src/external/gtfs/trips.rs)

Trip_table_name == "trips"

Trip_column_names ==
    <<"route_id", "service_id", "trip_id", "trip_headsign", "trip_short_name",
      "direction_id", "block_id", "shape_id", "wheelchair_accessible",
      "bikes_allowed", "jp_trip_desc", "jp_trip_desc_symbol", "jp_office_id">>

\* A create_sql whose route_id column is declared int.
Trip_create_sql_RouteIdInt ==
    << Col("route_id", "int", TRUE, FALSE),
       Col("service_id", "text", TRUE, FALSE),
       Col("trip_id", "text", FALSE, TRUE),
       Col("trip_headsign", "text", FALSE, FALSE),
       Col("trip_short_name", "text", FALSE, FALSE),
       Col("direction_id", "int", FALSE, FALSE),
       Col("block_id", "text", FALSE, FALSE),
       Col("shape_id", "text", FALSE, FALSE),
       Col("wheelchair_accessible", "int", FALSE, FALSE),
       Col("bikes_allowed", "int", FALSE, FALSE),
       Col("jp_trip_desc", "text", FALSE, FALSE),
       Col("jp_trip_desc_symbol", "text", FALSE, FALSE),
       Col("jp_office_id", "text", FALSE, FALSE) >>

Trip_create_sql ==
    << Col("route_id", "text", TRUE, FALSE),
       Col("service_id", "text", TRUE, FALSE),
       Col("trip_id", "text", FALSE, TRUE),
       Col("trip_headsign", "text", FALSE, FALSE),
       Col("trip_short_name", "text", FALSE, FALSE),
       Col("direction_id", "int", FALSE, FALSE),
       Col("block_id", "text", FALSE, FALSE),
       Col("shape_id", "text", FALSE, FALSE),
       Col("wheelchair_accessible", "int", FALSE, FALSE),
       Col("bikes_allowed", "int", FALSE, FALSE),
       Col("jp_trip_desc", "text", FALSE, FALSE),
       Col("jp_trip_desc_symbol", "text", FALSE, FALSE),
       Col("jp_office_id", "text", FALSE, FALSE) >>

\* #[repr(u8)] discriminants, written by Serialize_repr.
Direction_repr(v) == CASE v = "Outbound" -> 0 [] v = "Inbound" -> 1

WheelchairAccessible_repr(v) == CASE v = "Unknown" -> 0 [] v = "Allow" -> 1 [] v = "Deny" -> 2

BikesAllowed_repr(v) == CASE v = "Unknown" -> 0 [] v = "Allow" -> 1 [] v = "Deny" -> 2

Direction_variants == {"Outbound", "Inbound"}

WheelchairAccessible_variants == {"Unknown", "Allow", "Deny"}

BikesAllowed_variants == {"Unknown", "Allow", "Deny"}

\* -- Stop, Route, StopTime: their modules are not among the sources; each is
\* reduced to its GTFS key fields, which form the table's primary key (for
\* stop_times the pair trip_id, stop_sequence).

Stop_table_name == "stops"

Route_table_name == "routes"

StopTime_table_name == "stop_times"

Stop_column_names == <<"stop_id">>

Route_column_names == <<"route_id">>

StopTime_column_names == <<"trip_id", "stop_sequence">>

Stop_create_columns == << Col("stop_id", "text", FALSE, TRUE) >>

Route_create_columns == << Col("route_id", "text", FALSE, TRUE) >>

StopTime_create_columns ==
    << Col("trip_id", "text", TRUE, TRUE), Col("stop_sequence", "int", TRUE, TRUE) >>

\* -- trait Table, resolved per entity type

table_name(T) ==
    CASE T = "Agency" -> Agency_table_name
      [] T = "Trip" -> Trip_table_name
      [] T = "Stop" -> Stop_table_name
      [] T = "Route" -> Route_table_name
      [] T = "StopTime" -> StopTime_table_name

column_names(T) ==
    CASE T = "Agency" -> Agency_column_names
      [] T = "Trip" -> Trip_column_names
      [] T = "Stop" -> Stop_column_names
      [] T = "Route" -> Route_column_names
      [] T = "StopTime" -> StopTime_column_names

create_columns(T) ==
    CASE T = "Agency" -> Agency_create_columns
      [] T = "Trip" -> Trip_create_sql
      [] T = "Stop" -> Stop_create_columns
      [] T = "Route" -> Route_create_columns
      [] T = "StopTime" -> StopTime_create_columns

TableNames == {table_name(T) : T \in Entities}

\* --------------------------------------------------------------- records

\* Option<X>: <<>> is None, <<x>> is Some(x).
IsSome(o) == o # <<>>

TripRec(route, trip, dir, wc) ==
    [route_id |-> route, service_id |-> "S1", trip_id |-> trip,
     trip_headsign |-> <<"Big Sight">>, trip_short_name |-> <<>>,
     direction_id |-> dir, block_id |-> <<>>, shape_id |-> <<"2">>,
     wheelchair_accessible |-> wc, bikes_allowed |-> <<"Unknown">>,
     jp_trip_desc |-> <<>>, jp_trip_desc_symbol |-> <<>>, jp_office_id |-> <<"S">>]

\* Two trips share the trip_id T1; one route_id is all digits.
Trips ==
    { TripRec("R1", "T1", <<"Outbound">>, <<"Deny">>),
      TripRec("2", "T1", <<>>, <<>>),
      TripRec("R1", "T2", <<"Inbound">>, <<"Allow">>) }

AgencyRec(id, phone) ==
    [agency_id |-> id, agency_name |-> "Toei Bus", agency_url |-> "http://example.jp/",
     agency_timezone |-> "Asia/Tokyo", agency_lang |-> "ja",
     agency_phone |-> phone, agency_fare_url |-> <<>>, agency_email |-> <<>>]

Agencies == { AgencyRec("A1", <<>>), AgencyRec("A2", <<"3">>) }

Stops == { [stop_id |-> "P1"] }

Routes == { [route_id |-> "R1"] }

\* stop_sequence is an unsigned integer; fits_i64 tells whether it is one SQLite's
\* signed 64-bit integer can hold.
StopTimes ==
    { [trip_id |-> "T1", stop_sequence |-> [n |-> 1, fits_i64 |-> TRUE]],
      [trip_id |-> "T1", stop_sequence |-> [n |-> 0, fits_i64 |-> FALSE]] }

Records(T) ==
    CASE T = "Agency" -> Agencies
      [] T = "Trip" -> Trips
      [] T = "Stop" -> Stops
      [] T = "Route" -> Routes
      [] T = "StopTime" -> StopTimes

RouteIds == {"R1", "2", "R9"}

\* ------------------------------------------- record -> named parameters

Ser_String(s) == SqlText(s)

Ser_OptString(o) == IF IsSome(o) THEN SqlText(o[1]) ELSE SqlNull

\* An Inbound that is written as 2.
Ser_OptDirection_Swapped(o) ==
    IF IsSome(o) THEN SqlInt(IF o[1] = "Inbound" THEN 2 ELSE 0) ELSE SqlNull

Ser_OptDirection(o) == IF IsSome(o) THEN SqlInt(Direction_repr(o[1])) ELSE SqlNull

Ser_OptWheelchair(o) == IF IsSome(o) THEN SqlInt(WheelchairAccessible_repr(o[1])) ELSE SqlNull

Ser_OptBikes(o) == IF IsSome(o) THEN SqlInt(BikesAllowed_repr(o[1])) ELSE SqlNull

Trip_serialize(r) ==
    [ok |-> TRUE,
     params |->
       [route_id |-> Ser_String(r.route_id),
        service_id |-> Ser_String(r.service_id),
        trip_id |-> Ser_String(r.trip_id),
        trip_headsign |-> Ser_OptString(r.trip_headsign),
        trip_short_name |-> Ser_OptString(r.trip_short_name),
        direction_id |-> Ser_OptDirection(r.direction_id),
        block_id |-> Ser_OptString(r.block_id),
        shape_id |-> Ser_OptString(r.shape_id),
        wheelchair_accessible |-> Ser_OptWheelchair(r.wheelchair_accessible),
        bikes_allowed |-> Ser_OptBikes(r.bikes_allowed),
        jp_trip_desc |-> Ser_OptString(r.jp_trip_desc),
        jp_trip_desc_symbol |-> Ser_OptString(r.jp_trip_desc_symbol),
        jp_office_id |-> Ser_OptString(r.jp_office_id)]]

Agency_serialize(r) ==
    [ok |-> TRUE,
     params |->
       [agency_id |-> Ser_String(r.agency_id),
        agency_name |-> Ser_String(r.agency_name),
        agency_url |-> Ser_String(r.agency_url),
        agency_timezone |-> Ser_String(r.agency_timezone),
        agency_lang |-> Ser_String(r.agency_lang),
        agency_phone |-> Ser_OptString(r.agency_phone),
        agency_fare_url |-> Ser_OptString(r.agency_fare_url),
        agency_email |-> Ser_OptString(r.agency_email)]]

Stop_serialize(r) == [ok |-> TRUE, params |-> [stop_id |-> Ser_String(r.stop_id)]]

Route_serialize(r) == [ok |-> TRUE, params |-> [route_id |-> Ser_String(r.route_id)]]

\* The parameter serializer rejects an unsigned integer above i64::MAX.
StopTime_serialize(r) ==
    [ok |-> r.stop_sequence.fits_i64,
     params |-> [trip_id |-> Ser_String(r.trip_id), stop_sequence |-> SqlInt(r.stop_sequence.n)]]

\* serde_rusqlite::to_params_named(&record)
to_params_named(T, r) ==
    CASE T = "Agency" -> Agency_serialize(r)
      [] T = "Trip" -> Trip_serialize(r)
      [] T = "Stop" -> Stop_serialize(r)
      [] T = "Route" -> Route_serialize(r)
      [] T = "StopTime" -> StopTime_serialize(r)

\* ------------------------------------------------------- row -> record

Missing == [k |-> "missing", i |-> 0, s |-> ""]

Column(row, c) == IF c \in DOMAIN row THEN row[c] ELSE Missing

De_String(v) == [ok |-> v.k = "text", v |-> v.s]

De_OptString(v) ==
    CASE v.k \in {"null", "missing"} -> [ok |-> TRUE, v |-> <<>>]
      [] v.k = "text" -> [ok |-> TRUE, v |-> <<v.s>>]
      [] OTHER -> [ok |-> FALSE, v |-> <<>>]

De_OptDirection(v) ==
    CASE v.k \in {"null", "missing"} -> [ok |-> TRUE, v |-> <<>>]
      [] v.k = "int" /\ (\E d \in Direction_variants : Direction_repr(d) = v.i) ->
           [ok |-> TRUE, v |-> <<CHOOSE d \in Direction_variants : Direction_repr(d) = v.i>>]
      [] OTHER -> [ok |-> FALSE, v |-> <<>>]

De_OptWheelchair(v) ==
    CASE v.k \in {"null", "missing"} -> [ok |-> TRUE, v |-> <<>>]
      [] v.k = "int" /\ (\E d \in WheelchairAccessible_variants : WheelchairAccessible_repr(d) = v.i) ->
           [ok |-> TRUE,
            v |-> <<CHOOSE d \in WheelchairAccessible_variants : WheelchairAccessible_repr(d) = v.i>>]
      [] OTHER -> [ok |-> FALSE, v |-> <<>>]

De_OptBikes(v) ==
    CASE v.k \in {"null", "missing"} -> [ok |-> TRUE, v |-> <<>>]
      [] v.k = "int" /\ (\E d \in BikesAllowed_variants : BikesAllowed_repr(d) = v.i) ->
           [ok |-> TRUE, v |-> <<CHOOSE d \in BikesAllowed_variants : BikesAllowed_repr(d) = v.i>>]
      [] OTHER -> [ok |-> FALSE, v |-> <<>>]

Trip_deserialize(row) ==
    LET f == [route_id |-> De_String(Column(row, "route_id")),
              service_id |-> De_String(Column(row, "service_id")),
              trip_id |-> De_String(Column(row, "trip_id")),
              trip_headsign |-> De_OptString(Column(row, "trip_headsign")),
              trip_short_name |-> De_OptString(Column(row, "trip_short_name")),
              direction_id |-> De_OptDirection(Column(row, "direction_id")),
              block_id |-> De_OptString(Column(row, "block_id")),
              shape_id |-> De_OptString(Column(row, "shape_id")),
              wheelchair_accessible |-> De_OptWheelchair(Column(row, "wheelchair_accessible")),
              bikes_allowed |-> De_OptBikes(Column(row, "bikes_allowed")),
              jp_trip_desc |-> De_OptString(Column(row, "jp_trip_desc")),
              jp_trip_desc_symbol |-> De_OptString(Column(row, "jp_trip_desc_symbol")),
              jp_office_id |-> De_OptString(Column(row, "jp_office_id"))]
    IN [ok |-> \A c \in DOMAIN f : f[c].ok, v |-> [c \in DOMAIN f |-> f[c].v]]

Agency_deserialize(row) ==
    LET f == [agency_id |-> De_String(Column(row, "agency_id")),
              agency_name |-> De_String(Column(row, "agency_name")),
              agency_url |-> De_String(Column(row, "agency_url")),
              agency_timezone |-> De_String(Column(row, "agency_timezone")),
              agency_lang |-> De_String(Column(row, "agency_lang")),
              agency_phone |-> De_OptString(Column(row, "agency_phone")),
              agency_fare_url |-> De_OptString(Column(row, "agency_fare_url")),
              agency_email |-> De_OptString(Column(row, "agency_email"))]
    IN [ok |-> \A c \in DOMAIN f : f[c].ok, v |-> [c \in DOMAIN f |-> f[c].v]]

Stop_deserialize(row) ==
    LET f == [stop_id |-> De_String(Column(row, "stop_id"))]
    IN [ok |-> f.stop_id.ok, v |-> [stop_id |-> f.stop_id.v]]

Route_deserialize(row) ==
    LET f == [route_id |-> De_String(Column(row, "route_id"))]
    IN [ok |-> f.route_id.ok, v |-> [route_id |-> f.route_id.v]]

StopTime_deserialize(row) ==
    LET t == De_String(Column(row, "trip_id"))
        q == Column(row, "stop_sequence")
    IN [ok |-> t.ok /\ q.k = "int",
        v |-> [trip_id |-> t.v, stop_sequence |-> [n |-> q.i, fits_i64 |-> TRUE]]]

deserialize(T, row) ==
    CASE T = "Agency" -> Agency_deserialize(row)
      [] T = "Trip" -> Trip_deserialize(row)
      [] T = "Stop" -> Stop_deserialize(row)
      [] T = "Route" -> Route_deserialize(row)
      [] T = "StopTime" -> StopTime_deserialize(row)

\* serde_rusqlite::from_rows::<T>(rows).collect(): the records, or the first failure.
from_rows(T, rows) ==
    IF \A row \in rows : deserialize(T, row).ok
    THEN [status |-> "Ok", value |-> {deserialize(T, row).v : row \in rows}]
    ELSE [status |-> "Err", value |-> {}]

\* ---------------------------------------------------------------- store

Absent == [present |-> FALSE, cols |-> <<>>, rows |-> {}]

\* T's table as create leaves it.
FreshTable(T) == [present |-> TRUE, cols |-> create_columns(T), rows |-> {}]

Ok(st) == [status |-> "Ok", store |-> st]

Err(st) == [status |-> "Err", store |-> st]

\* CREATE TABLE [IF NOT EXISTS] t (cols), executed in autocommit mode.
CreateTable(st, t, cols, ifNotExists) ==
    IF st[t].present
    THEN IF ifNotExists THEN Ok(st) ELSE Err(st)
    ELSE IF cols = <<>>
         THEN Err(st)
         ELSE Ok([st EXCEPT ![t] = [present |-> TRUE, cols |-> cols, rows |-> {}]])

\* DROP TABLE [IF EXISTS] t, executed in autocommit mode.
DropTable(st, t, ifExists) ==
    IF st[t].present
    THEN Ok([st EXCEPT ![t] = Absent])
    ELSE IF ifExists THEN Ok(st) ELSE Err(st)

\* A create that issues a plain CREATE TABLE.
Agency_create_Plain(st) == CreateTable(st, Agency_table_name, Agency_create_columns, FALSE)

Agency_create(st) == CreateTable(st, Agency_table_name, Agency_create_columns, TRUE)

Stop_create(st) == CreateTable(st, Stop_table_name, Stop_create_columns, TRUE)

Route_create(st) == CreateTable(st, Route_table_name, Route_create_columns, TRUE)

Trip_create(st) == CreateTable(st, Trip_table_name, create_columns("Trip"), TRUE)

StopTime_create(st) == CreateTable(st, StopTime_table_name, StopTime_create_columns, TRUE)

\* A drop that issues a plain DROP TABLE.
drop_Plain(st, T) == DropTable(st, table_name(T), FALSE)

drop(st, T) == DropTable(st, table_name(T), TRUE)

\* Each statement is followed by ?: the first failure is returned and the rest
\* is not run.
create_all(st) ==
    LET r1 == Agency_create(st)
        r2 == IF r1.status = "Ok" THEN Stop_create(r1.store) ELSE r1
        r3 == IF r2.status = "Ok" THEN Route_create(r2.store) ELSE r2
        r4 == IF r3.status = "Ok" THEN Trip_create(r3.store) ELSE r3
    IN IF r4.status = "Ok" THEN StopTime_create(r4.store) ELSE r4

drop_all(st) ==
    LET r1 == drop(st, "Agency")
        r2 == IF r1.status = "Ok" THEN drop(r1.store, "Route") ELSE r1
        r3 == IF r2.status = "Ok" THEN drop(r2.store, "StopTime") ELSE r2
        r4 == IF r3.status = "Ok" THEN drop(r3.store, "Stop") ELSE r3
    IN IF r4.status = "Ok" THEN drop(r4.store, "Trip") ELSE r4

ColNames(tbl) == {c.name : c \in Range(tbl.cols)}

ColDef(tbl, name) == CHOOSE c \in Range(tbl.cols) : c.name = name

PkNames(tbl) == {c.name : c \in {d \in Range(tbl.cols) : d.pk}}

\* The row an INSERT naming the columns `names` builds from the bound parameters:
\* a named column takes its parameter (NULL when none is bound), any other column
\* NULL; each value then takes its column's affinity.
BuildRow(tbl, names, params) ==
    [c \in ColNames(tbl) |->
        ApplyAffinity(ColDef(tbl, c).type,
                      IF c \in names /\ c \in DOMAIN params THEN params[c] ELSE SqlNull)]

ViolatesNotNull(tbl, row) == \E c \in Range(tbl.cols) : c.notnull /\ row[c.name].k = "null"

ViolatesUnique(tbl, row) ==
    /\ PkNames(tbl) # {}
    /\ \A c \in PkNames(tbl) : row[c].k # "null"
    /\ \E r \in tbl.rows : \A c \in PkNames(tbl) : r[c] = row[c]

\* tx.execute_named("INSERT INTO <table> (<columns>) VALUES (<:columns>)", params)
\* against the transaction's view tbl of the table.
execute_named(tbl, T, params) ==
    LET names == Range(column_names(T))
        row == BuildRow(tbl, names, params)
    IN CASE ~tbl.present -> [status |-> "Err", table |-> tbl]
         [] ~(names \subseteq ColNames(tbl)) -> [status |-> "Err", table |-> tbl]
         [] ~(DOMAIN params \subseteq names) -> [status |-> "Err", table |-> tbl]
         [] ViolatesNotNull(tbl, row) -> [status |-> "Err", table |-> tbl]
         [] ViolatesUnique(tbl, row) -> [status |-> "Err", table |-> tbl]
         [] OTHER -> [status |-> "Ok", table |-> [tbl EXCEPT !.rows = @ \cup {row}]]

\* SELECT * FROM <table>, rows rebuilt into records.
select_all(st, T) ==
    IF st[table_name(T)].present
    THEN from_rows(T, st[table_name(T)].rows)
    ELSE [status |-> "Err", value |-> {}]

\* SELECT * FROM <table> WHERE route_id = ?
select_by_route_id(st, T, id) ==
    IF st[table_name(T)].present /\ "route_id" \in ColNames(st[table_name(T)])
    THEN from_rows(T, {row \in st[table_name(T)].rows :
                          row["route_id"] = ApplyAffinity(ColDef(st[table_name(T)], "route_id").type,
                                                          SqlText(id))})
    ELSE [status |-> "Err", value |-> {}]

\* A select_trips that ignores its key.
select_trips_Unfiltered(st, route_id) == select_all(st, "Trip")

select_trips(st, route_id) ==
    IF IsSome(route_id)
    THEN select_by_route_id(st, "Trip", route_id[1])
    ELSE select_all(st, "Trip")

select_routes(st, route_id) ==
    IF IsSome(route_id)
    THEN select_by_route_id(st, "Route", route_id[1])
    ELSE select_all(st, "Route")

select_agencies(st) == select_all(st, "Agency")

select_stops(st) == select_all(st, "Stop")

\* ----------------------------------------------------------------- state

VARIABLES
    store,      \* the database file: table name -> committed table
    pc,         \* where the program is: "idle", or inside insert ("loop", "committed")
    callT,      \* insert: the entity type T of the call in progress
    records,    \* insert: the batch
    idx,        \* insert: index of the next record of the batch
    txTable,    \* insert: the open transaction's view of T's table
    log,        \* statements the current (or last) insert sent to the connection
    pre,        \* the store when the current (or last) call began
    result,     \* what the last finished call returned
    observed,   \* what a second connection has read of T's table during this insert
    trail,      \* lifecycle specification: the results of the last lifecycle calls
    runPc,      \* import: the step of make_db's run
    feed,       \* import: the batches read from the GTFS directory
    runs,       \* import: number of runs started
    prevRun     \* import: outcome and final store of the previous run

vars == <<store, pc, callT, records, idx, txTable, log, pre, result, observed,
          trail, runPc, feed, runs, prevRun>>

insertVars == <<pc, callT, records, idx, txTable, log, pre, result, observed>>

importVars == <<runPc, feed, runs, prevRun>>

Batches(T) == UNION {[1..n -> Records(T)] : n \in 0..MaxBatch}

NoResult == [op |-> "none", T |-> "none", key |-> <<>>, status |-> "Ok", value |-> {}]

Result(op, T, key, status, value) ==
    [op |-> op, T |-> T, key |-> key, status |-> status, value |-> value]

Stmt(name, i) == [stmt |-> name, i |-> i]

RunAt(state, step, ent) == [state |-> state, step |-> step, ent |-> ent]

\* A database file in which exactly the tables of the entity types P exist, empty,
\* as create left them.
EmptyTables(P) ==
    LET named(t) == CHOOSE T \in Entities : table_name(T) = t
    IN [t \in TableNames |->
          IF named(t) \in P
          THEN [present |-> TRUE, cols |-> create_columns(named(t)), rows |-> {}]
          ELSE Absent]

\* GtfsDb::new opens the file at the given path: a new file, or one an earlier
\* run left behind.
InitCommon ==
    /\ pc = "idle"
    /\ callT = "none"
    /\ records = <<>>
    /\ idx = 0
    /\ txTable = Absent
    /\ log = <<>>
    /\ pre = store
    /\ result = NoResult
    /\ observed = {}
    /\ trail = <<>>
    /\ runPc = RunAt("idle", 0, 0)
    /\ feed = [T \in Entities |-> <<>>]
    /\ runs = 0
    /\ prevRun = [status |-> "none", store |-> EmptyTables({})]

Init ==
    /\ store \in {EmptyTables(P) : P \in {{}, {"Agency", "Trip"}, Entities}}
    /\ InitCommon

\* A call other than insert leaves no insert in progress.
ClearInsert ==
    /\ pc' = "idle"
    /\ callT' = "none"
    /\ records' = <<>>
    /\ idx' = 0
    /\ txTable' = Absent

\* -- lifecycle calls (Gtfs::create_all, Gtfs::drop_all)

CreateAllCall ==
    /\ pc = "idle"
    /\ pre' = store
    /\ store' = create_all(store).store
    /\ result' = Result("create_all", "none", <<>>, create_all(store).status, {})
    /\ log' = <<>>
    /\ observed' = {}
    /\ ClearInsert

DropAllCall ==
    /\ pc = "idle"
    /\ pre' = store
    /\ store' = drop_all(store).store
    /\ result' = Result("drop_all", "none", <<>>, drop_all(store).status, {})
    /\ log' = <<>>
    /\ observed' = {}
    /\ ClearInsert

CreateAll == CreateAllCall /\ UNCHANGED trail /\ UNCHANGED importVars

DropAll == DropAllCall /\ UNCHANGED trail /\ UNCHANGED importVars

\* -- insert<T>(conn, records)

\* A transaction() that prepares the INSERT first, failing on a missing table.
transaction_Prepared(st, T) ==
    [status |-> IF st[table_name(T)].present THEN "Ok" ELSE "Err", table |-> st[table_name(T)]]

\* conn.transaction()?
transaction(st, T) == [status |-> "Ok", table |-> st[table_name(T)]]

\* What the database file holds after a statement ran inside the transaction with
\* view tbl of table t: nothing of it, until COMMIT.
AfterExecute_Autocommit(st, t, tbl) == [st EXCEPT ![t] = tbl]

AfterExecute(st, t, tbl) == st

\* tx.commit()
commit(st, t, tbl) == [st EXCEPT ![t] = tbl]

\* A Transaction whose drop behaviour is to commit.
drop_transaction_Commit(st, t, tbl) == [st EXCEPT ![t] = tbl]

\* Dropping tx without a commit: rusqlite's default drop behaviour rolls back.
drop_transaction(st, t, tbl) == st

\* The statements one pass of the loop sends for record i.
LoopStatements_CommitEach(i) == <<Stmt("INSERT", i), Stmt("COMMIT", i)>>

LoopStatements(i) == <<Stmt("INSERT", i)>>

InsertBeginCall(T, recs) ==
    /\ pc = "idle"
    /\ pre' = store
    /\ callT' = T
    /\ records' = recs
    /\ observed' = {}
    /\ IF transaction(store, T).status = "Ok"
       THEN /\ pc' = "loop"
            /\ idx' = 1
            /\ txTable' = transaction(store, T).table
            /\ log' = <<Stmt("BEGIN", 0)>>
            /\ result' = Result("insert", T, <<>>, "Pending", {})
       ELSE /\ pc' = "idle"
            /\ idx' = 0
            /\ txTable' = Absent
            /\ log' = <<>>
            /\ result' = Result("insert", T, <<>>, "Err", {})
    /\ UNCHANGED store

\* One pass of `for record in records`: serialize the record (unwrap panics on a
\* failure), execute the INSERT (? returns on a failure).  Leaving the function
\* either way drops tx, which rolls the transaction back.
InsertExecute ==
    /\ pc = "loop"
    /\ idx <= Len(records)
    /\ LET ser == to_params_named(callT, records[idx])
           r == execute_named(txTable, callT, ser.params)
       IN IF ~ser.ok
          THEN /\ pc' = "idle"
               /\ result' = Result("insert", callT, <<>>, "Panic", {})
               /\ log' = Append(log, Stmt("ROLLBACK", idx))
               /\ store' = drop_transaction(store, table_name(callT), txTable)
               /\ observed' = {}
               /\ UNCHANGED <<txTable, idx>>
          ELSE IF r.status = "Err"
          THEN /\ pc' = "idle"
               /\ result' = Result("insert", callT, <<>>, "Err", {})
               /\ log' = log \o LoopStatements(idx) \o <<Stmt("ROLLBACK", idx)>>
               /\ store' = drop_transaction(store, table_name(callT), txTable)
               /\ observed' = {}
               /\ UNCHANGED <<txTable, idx>>
          ELSE /\ txTable' = r.table
               /\ store' = AfterExecute(store, table_name(callT), r.table)
               /\ idx' = idx + 1
               /\ log' = log \o LoopStatements(idx)
               /\ UNCHANGED <<pc, result, observed>>
    /\ UNCHANGED <<callT, records, pre>>

InsertCommit ==
    /\ pc = "loop"
    /\ idx > Len(records)
    /\ store' = commit(store, table_name(callT), txTable)
    /\ log' = Append(log, Stmt("COMMIT", Len(records)))
    /\ pc' = "committed"
    /\ UNCHANGED <<callT, records, idx, txTable, pre, result, observed>>

\* trace!(...); Ok(())
InsertReturn ==
    /\ pc = "committed"
    /\ pc' = "idle"
    /\ result' = Result("insert", callT, <<>>, "Ok", {})
    /\ observed' = {}
    /\ UNCHANGED <<store, callT, records, idx, txTable, log, pre>>

\* A second connection reads T's table while insert runs.
ReaderSelect ==
    /\ pc \in {"loop", "committed"}
    /\ observed' = observed \cup {store[table_name(callT)].rows}
    /\ UNCHANGED <<store, pc, callT, records, idx, txTable, log, pre, result>>
    /\ UNCHANGED <<trail, importVars>>

InsertBegin ==
    /\ \E T \in Entities : \E recs \in Batches(T) : InsertBeginCall(T, recs)
    /\ UNCHANGED <<trail, importVars>>

InsertStep ==
    /\ InsertExecute \/ InsertCommit \/ InsertReturn
    /\ UNCHANGED <<trail, importVars>>

\* -- select calls

SelectCall(op, T, key, r) ==
    /\ pc = "idle"
    /\ pre' = store
    /\ result' = Result(op, T, key, r.status, r.value)
    /\ log' = <<>>
    /\ observed' = {}
    /\ ClearInsert
    /\ UNCHANGED store
    /\ UNCHANGED <<trail, importVars>>

SelectAgencies == SelectCall("select_agencies", "Agency", <<>>, select_agencies(store))

SelectStops == SelectCall("select_stops", "Stop", <<>>, select_stops(store))

SelectRoutes ==
    \E key \in {<<>>} \cup {<<k>> : k \in RouteIds} :
        SelectCall("select_routes", "Route", key, select_routes(store, key))

SelectTrips ==
    \E key \in {<<>>} \cup {<<k>> : k \in RouteIds} :
        SelectCall("select_trips", "Trip", key, select_trips(store, key))

Next ==
    \/ CreateAll
    \/ DropAll
    \/ InsertBegin
    \/ InsertStep
    \/ ReaderSelect
    \/ SelectAgencies
    \/ SelectStops
    \/ SelectRoutes
    \/ SelectTrips

Spec == Init /\ [][Next]_vars

\* ----------------------------------------------------------- properties

InsertDone == pc = "idle" /\ result.op = "insert"

InsertTable == table_name(callT)

\* tbl is the table `before` with every record of the batch added.
WholeBatchAdded(T, before, tbl, recs) ==
    /\ tbl.present = before.present
    /\ tbl.cols = before.cols
    /\ before.rows \subseteq tbl.rows
    /\ Cardinality(tbl.rows) = Cardinality(before.rows) + Len(recs)
    /\ from_rows(T, tbl.rows \ before.rows) = [status |-> "Ok", value |-> Range(recs)]

OtherTablesUnchanged == \A t \in TableNames \ {InsertTable} : store[t] = pre[t]

\* C1: an insert either commits every record of its batch or leaves every table
\* exactly as it was before the call; a call that fails leaves them as they were.
C1_AllOrNothing ==
    InsertDone =>
        IF result.status = "Ok"
        THEN /\ WholeBatchAdded(callT, pre[InsertTable], store[InsertTable], records)
             /\ OtherTablesUnchanged
        ELSE store = pre

\* A trips batch failed on its second record, a duplicate trip_id, after the first
\* had been executed; the table held a row before.
C1_Witness ==
    /\ InsertDone
    /\ callT = "Trip"
    /\ result.status = "Err"
    /\ Len(records) = 2
    /\ idx = 2
    /\ records[1].trip_id = "T2"
    /\ records[2].trip_id = "T1"
    /\ Cardinality(pre[InsertTable].rows) = 1
    /\ store = pre

\* The primary key of a record of T, as declared by T's create statement.
KeyOf(T, r) == [c \in {d.name : d \in {e \in Range(create_columns(T)) : e.pk}} |-> r[c]]

ValidBatch(T, recs) ==
    /\ Len(recs) > 0
    /\ \A i \in DOMAIN recs : to_params_named(T, recs[i]).ok
    /\ \A i, j \in DOMAIN recs : i # j => KeyOf(T, recs[i]) # KeyOf(T, recs[j])

\* C2: on a freshly created, empty table, inserting a non-empty batch of valid
\* records with distinct primary keys succeeds, and select_all then returns
\* exactly the records of the batch, each equal field for field.
C2_RoundTrip ==
    (/\ InsertDone
     /\ pre[InsertTable] = FreshTable(callT)
     /\ ValidBatch(callT, records))
    => /\ result.status = "Ok"
       /\ select_all(store, callT) = [status |-> "Ok", value |-> Range(records)]

\* Two trips, one with an all-digit route_id and no direction, went in and come
\* back out.
C2_Witness ==
    /\ InsertDone
    /\ callT = "Trip"
    /\ pre[InsertTable] = FreshTable("Trip")
    /\ ValidBatch("Trip", records)
    /\ Len(records) = 2
    /\ \E i \in DOMAIN records : records[i].route_id = "2" /\ records[i].direction_id = <<>>
    /\ \E i \in DOMAIN records : records[i].direction_id = <<"Inbound">>
    /\ Cardinality(select_all(store, "Trip").value) = 2

\* C4: insert of an empty batch returns Ok, having opened and committed an empty
\* transaction, and leaves every table unchanged.
C4_EmptyInsert ==
    (InsertDone /\ records = <<>>)
    => /\ result.status = "Ok"
       /\ store = pre
       /\ log = <<Stmt("BEGIN", 0), Stmt("COMMIT", 0)>>

\* An empty batch was inserted for a table that does not exist.
C4_Witness ==
    /\ InsertDone
    /\ records = <<>>
    /\ ~pre[InsertTable].present
    /\ result.status = "Ok"

\* C5: whatever a second connection reads of the table during an insert is the
\* table as it was before the call or the table with the whole batch added.
C5_ReaderIsolation ==
    \A o \in observed :
        \/ o = pre[InsertTable].rows
        \/ WholeBatchAdded(callT, pre[InsertTable],
                           [pre[InsertTable] EXCEPT !.rows = o], records)

\* The reader saw both the table before a two-record batch and the table after it.
C5_Witness ==
    /\ Len(records) = 2
    /\ Cardinality(observed) = 2
    /\ pre[InsertTable].rows \in observed
    /\ store[InsertTable].rows \in observed

\* C7: every table is absent, or present with exactly the columns of its
\* entity's column_names().
C7_CompleteColumns ==
    \A T \in Entities :
        IF store[table_name(T)].present
        THEN [i \in DOMAIN store[table_name(T)].cols |-> store[table_name(T)].cols[i].name]
                 = column_names(T)
        ELSE store[table_name(T)] = Absent

\* create_all made the tables that were missing.
C7_Witness ==
    /\ result.op = "create_all"
    /\ \E T \in Entities : ~pre[table_name(T)].present
    /\ \A T \in Entities : store[table_name(T)].present

\* C8: a select with a route_id key returns exactly what filtering the unfiltered
\* select by that route_id gives, an empty result when nothing matches; it fails
\* only where the unfiltered select fails.
C8_FilteredSelect ==
    (result.op \in {"select_trips", "select_routes"} /\ IsSome(result.key))
    => LET all == select_all(store, result.T)
       IN IF all.status = "Ok"
          THEN /\ result.status = "Ok"
               /\ result.value = {r \in all.value : r.route_id = result.key[1]}
          ELSE result.status = "Err"

\* select_trips with a key no stored trip has returned Ok and nothing, from a
\* table of two trips.
C8_Witness ==
    /\ result.op = "select_trips"
    /\ result.key = <<"R9">>
    /\ result.status = "Ok"
    /\ result.value = {}
    /\ Cardinality(store[Trip_table_name].rows) = 2

Count(name) == Cardinality({n \in DOMAIN log : log[n].stmt = name})

\* C9: within one insert call one transaction is opened, the records are executed
\* in input order inside it, and the only commit comes after the last record; the
\* database file is as before the call until then, and a call that fails on a
\* record commits nothing.
C9_CommitOnce ==
    result.op = "insert" =>
        /\ Count("BEGIN") <= 1
        /\ Count("COMMIT") <= 1
        /\ \A n \in DOMAIN log :
              /\ log[n].stmt = "BEGIN" => n = 1
              /\ log[n].stmt = "INSERT" => log[n].i = n - 1 /\ log[1].stmt = "BEGIN"
              /\ log[n].stmt = "COMMIT" => n = Len(records) + 2 /\ n = Len(log)
        /\ Count("COMMIT") = 0 => store = pre
        /\ (pc = "idle" /\ result.status = "Ok") =>
              /\ Len(log) = Len(records) + 2
              /\ log[Len(log)].stmt = "COMMIT"
        /\ (pc = "idle" /\ result.status # "Ok") => Count("COMMIT") = 0

\* A two-record batch was committed.
C9_Witness ==
    /\ InsertDone
    /\ result.status = "Ok"
    /\ Len(records) = 2
    /\ log = <<Stmt("BEGIN", 0), Stmt("INSERT", 1), Stmt("INSERT", 2), Stmt("COMMIT", 2)>>

\* C10: an insert that fails on a record stops there, having executed no later
\* record and no record twice, and returns the failure as an error value.
C10_FailureIsReturned ==
    (InsertDone /\ result.status # "Ok")
    => /\ result.status = "Err"
       /\ Count("INSERT") = idx
       /\ \A n \in DOMAIN log : log[n].stmt = "INSERT" => log[n].i <= idx

\* ------------------------------------------------- lifecycle specification

\* Records that can sit together in a table.
SampleRecords(T) ==
    CASE T = "Trip" -> {r \in Trips : r.route_id = "R1"}
      [] T = "StopTime" -> {r \in StopTimes : r.stop_sequence.fits_i64}
      [] OTHER -> Records(T)

\* T's table as create and an insert of SampleRecords(T) leave it.
PopulatedTable(T) ==
    [FreshTable(T) EXCEPT
        !.rows = {BuildRow(FreshTable(T), Range(column_names(T)), to_params_named(T, r).params) :
                     r \in SampleRecords(T)}]

EntityOf(t) == CHOOSE T \in Entities : table_name(T) = t

\* Any database file the program can have left behind: each table absent, empty
\* or holding rows.
TableIn(mode, T) ==
    CASE mode = "absent" -> Absent
      [] mode = "empty" -> FreshTable(T)
      [] mode = "populated" -> PopulatedTable(T)

AnyStores ==
    {[t \in TableNames |-> TableIn(m[t], EntityOf(t))] :
        m \in [TableNames -> {"absent", "empty", "populated"}]}

Present(st) == {T \in Entities : st[table_name(T)].present}

RowCount(st) == Cardinality(UNION {{<<t, r>> : r \in st[t].rows} : t \in TableNames})

TrailEntry(op, status, st) ==
    [op |-> op, status |-> status, present |-> Present(st), rows |-> RowCount(st)]

LcInit ==
    /\ store \in AnyStores
    /\ InitCommon

LcCreateAll ==
    /\ Len(trail) < MaxTrail
    /\ CreateAllCall
    /\ trail' = Append(trail, TrailEntry("create_all", create_all(store).status, store))
    /\ UNCHANGED importVars

LcDropAll ==
    /\ Len(trail) < MaxTrail
    /\ DropAllCall
    /\ trail' = Append(trail, TrailEntry("drop_all", drop_all(store).status, store))
    /\ UNCHANGED importVars

LcNext == LcCreateAll \/ LcDropAll

SpecLifecycle == LcInit /\ [][LcNext]_vars

\* C3: from any store state every create_all and every drop_all succeeds, so the
\* sequence drop_all, create_all, drop_all, create_all does; create_all leaves
\* every table present, a table that already existed untouched, and drop_all
\* leaves every table absent.
C3_LifecycleIdempotent ==
    /\ \A n \in DOMAIN trail : trail[n].status = "Ok"
    /\ result.op = "create_all" =>
          /\ result.status = "Ok"
          /\ Present(store) = Entities
          /\ \A T \in Present(pre) : store[table_name(T)] = pre[table_name(T)]
    /\ result.op = "drop_all" =>
          /\ result.status = "Ok"
          /\ Present(store) = {}

\* drop_all, create_all, drop_all, create_all ran, starting from a file in which
\* only some of the tables existed and held rows.
C3_Witness ==
    /\ Len(trail) = 4
    /\ [n \in 1..4 |-> trail[n].op] = <<"drop_all", "create_all", "drop_all", "create_all">>
    /\ \A n \in 1..4 : trail[n].status = "Ok"
    /\ trail[1].present = {"Agency", "Trip"}
    /\ trail[1].rows > 0
    /\ trail[2].present = {}
    /\ trail[3].present = Entities

\* ---------------------------------------------------- import specification

\* An import that does not drop the tables first.
RunSteps_NoDrop == <<"create_tables", "insert_tables">>

\* make_db's run: service.drop_tables()?; service.create_tables()?;
\* service.insert_tables(&op.gtfs_dir)?
RunSteps == <<"drop_tables", "create_tables", "insert_tables">>

\* The order in which insert_tables writes the entity types.
InsertOrder == <<"Agency", "Stop", "Route", "Trip", "StopTime">>

\* What the GTFS directory holds: any agencies and trips, the sample stops,
\* routes and stop times.
Feeds ==
    {[T \in Entities |->
         CASE T = "Agency" -> a
           [] T = "Trip" -> t
           [] OTHER -> <<CHOOSE r \in SampleRecords(T) : TRUE>>] :
        a \in Batches("Agency"), t \in Batches("Trip")}

PriorStores ==
    { EmptyTables({}),
      EmptyTables(Entities),
      [t \in TableNames |-> PopulatedTable(EntityOf(t))],
      [t \in TableNames |->
          IF EntityOf(t) \in {"Agency", "Trip"} THEN PopulatedTable(EntityOf(t)) ELSE Absent] }

ImInit ==
    /\ store \in PriorStores
    /\ pc = "idle"
    /\ callT = "none"
    /\ records = <<>>
    /\ idx = 0
    /\ txTable = Absent
    /\ log = <<>>
    /\ pre = store
    /\ result = NoResult
    /\ observed = {}
    /\ trail = <<>>
    /\ runPc = RunAt("idle", 0, 0)
    /\ feed \in Feeds
    /\ runs = 0
    /\ prevRun = [status |-> "none", store |-> store]

\* The command is started (again, on the same GTFS directory).
RunStart ==
    /\ runPc.state \in {"idle", "done", "failed"}
    /\ runs < MaxRuns
    /\ runs' = runs + 1
    /\ prevRun' = [status |-> IF runs = 0 THEN "none" ELSE runPc.state, store |-> store]
    /\ runPc' = RunAt("running", 1, 1)
    /\ UNCHANGED <<store, feed, trail>>
    /\ UNCHANGED insertVars

RunDropTables ==
    /\ runPc.state = "running"
    /\ runPc.step <= Len(RunSteps)
    /\ RunSteps[runPc.step] = "drop_tables"
    /\ DropAllCall
    /\ runPc' = IF drop_all(store).status = "Ok"
                THEN RunAt("running", runPc.step + 1, 1)
                ELSE RunAt("failed", runPc.step, 1)
    /\ UNCHANGED <<feed, runs, prevRun, trail>>

RunCreateTables ==
    /\ runPc.state = "running"
    /\ runPc.step <= Len(RunSteps)
    /\ RunSteps[runPc.step] = "create_tables"
    /\ CreateAllCall
    /\ runPc' = IF create_all(store).status = "Ok"
                THEN RunAt("running", runPc.step + 1, 1)
                ELSE RunAt("failed", runPc.step, 1)
    /\ UNCHANGED <<feed, runs, prevRun, trail>>

\* insert_tables hands the next entity type's batch to insert.
RunInsertTables ==
    /\ runPc.state = "running"
    /\ runPc.step <= Len(RunSteps)
    /\ RunSteps[runPc.step] = "insert_tables"
    /\ runPc.ent <= Len(InsertOrder)
    /\ runPc.ent = 1 \/ (result.op = "insert" /\ result.status = "Ok")
    /\ InsertBeginCall(InsertOrder[runPc.ent], feed[InsertOrder[runPc.ent]])
    /\ runPc' = RunAt("running", runPc.step, runPc.ent + 1)
    /\ UNCHANGED <<feed, runs, prevRun, trail>>

\* insert_tables returns: at the first insert that failed, or after the last.
RunInsertTablesReturn ==
    /\ runPc.state = "running"
    /\ runPc.step <= Len(RunSteps)
    /\ RunSteps[runPc.step] = "insert_tables"
    /\ runPc.ent > 1
    /\ InsertDone
    /\ \/ /\ result.status # "Ok"
          /\ runPc' = RunAt("failed", runPc.step, runPc.ent)
       \/ /\ result.status = "Ok"
          /\ runPc.ent > Len(InsertOrder)
          /\ runPc' = RunAt("running", runPc.step + 1, 1)
    /\ UNCHANGED <<store, feed, runs, prevRun, trail>>
    /\ UNCHANGED insertVars

RunReturn ==
    /\ runPc.state = "running"
    /\ runPc.step > Len(RunSteps)
    /\ runPc' = RunAt("done", runPc.step, 1)
    /\ UNCHANGED <<store, feed, runs, prevRun, trail>>
    /\ UNCHANGED insertVars

ImNext ==
    \/ RunStart
    \/ RunDropTables
    \/ RunCreateTables
    \/ RunInsertTables
    \/ InsertStep
    \/ RunInsertTablesReturn
    \/ RunReturn

SpecImport == ImInit /\ [][ImNext]_vars

\* C6: whatever the store held before, a successful import leaves every table
\* present and holding exactly the records of the feed; a second import of the
\* same feed succeeds where the first did and leaves the store as the first did.
C6_ImportRebuilds ==
    /\ runPc.state = "done" =>
          \A T \in Entities :
              /\ store[table_name(T)].present
              /\ Cardinality(store[table_name(T)].rows) = Len(feed[T])
              /\ from_rows(T, store[table_name(T)].rows) = [status |-> "Ok", value |-> Range(feed[T])]
    /\ (runPc.state = "done" /\ prevRun.status = "done") => store = prevRun.store
    /\ runPc.state = "failed" => prevRun.status # "done"

\* The same feed, with two trips and an agency, was imported twice.
C6_Witness ==
    /\ runs = 2
    /\ runPc.state = "done"
    /\ prevRun.status = "done"
    /\ Len(feed["Trip"]) = 2
    /\ Len(feed["Agency"]) >= 1
    /\ store = prevRun.store

====
